---------------------------- MODULE Spec2Model ----------------------------
(***************************************************************************)
(* A model of server.js: an Express server keeping two JSON files          *)
(* (expenses, todos) with CRUD handlers and four read-only reports over    *)
(* the expenses (monthly, compare, recurring, tags).                       *)
(*                                                                         *)
(* Time is counted in hours since 2023-01-01T00:00Z.  The server's time    *)
(* zone is a fixed offset `tz` in hours (no daylight saving).  A stored    *)
(* date "YYYY-MM-DD" is the record [y, m, d] of its three numbers.         *)
(***************************************************************************)
EXTENDS Integers, Sequences, FiniteSets, TLC

VARIABLES
    expensesFile,   \* content of public/expenses.json: a sequence of expenses
    todosFile,      \* content of public/todos.json: a sequence of todos
    clock,          \* Date.now(), in hours since 2023-01-01T00:00Z
    tz,             \* the host's offset from UTC, in hours
    resp,           \* the last response sent: [op, query, status, body]
    running,        \* per client: its request in flight and where it stands
    snapshot,       \* per client: its handler's local `expenses` array
    serial,         \* history: the acknowledged writes applied one by one
    acked           \* history: clients whose overlapping write was acknowledged

vars ==
    <<expensesFile, todosFile, clock, tz, resp, running, snapshot, serial, acked>>

----------------------------------------------------------------------------
(* Bounds of the model.                                                    *)

MaxExpenses == 2      \* stored expenses drawn for the reports
MaxRecords == 2       \* records per file in the CRUD specifications
MaxTicks == 1         \* clock advances in the CRUD specifications
MaxClients == 2       \* clients with a write request in flight

----------------------------------------------------------------------------
(* JavaScript values.                                                      *)

Num(n) == [t |-> "number", v |-> n]
NaN == [t |-> "NaN", v |-> 0]
Infinity == [t |-> "Infinity", v |-> 0]
Null == [t |-> "null", v |-> 0]
Undefined == [t |-> "undefined", v |-> 0]
\* The value a property name of Object.prototype reads as on a plain {}:
\* a function or an object, truthy; `appended` is what += has concatenated
\* to its text.
Inherited == [t |-> "inherited", v |-> 0]
Text(appended) == [t |-> "string", v |-> appended]
\* A text of a request, as its characters.
Chars(s) == [t |-> "text", v |-> s]

\* Names every plain {} inherits from Object.prototype.
ObjectPrototypeKeys ==
    {"constructor", "toString", "valueOf", "hasOwnProperty", "__proto__"}

\* obj[k] on a plain object: an own property, else an inherited one.
JsGet(obj, k) ==
    IF k \in DOMAIN obj THEN obj[k]
    ELSE IF k \in ObjectPrototypeKeys THEN Inherited
    ELSE Undefined

\* !v is false exactly for the truthy values.
Truthy(x) ==
    CASE x.t = "number" -> x.v # 0
      [] x.t \in {"NaN", "null", "undefined"} -> FALSE
      [] OTHER -> TRUE

\* a + amount, amount a number or null: numeric addition (null counts 0),
\* or string concatenation once the left side is not a number.
JsAdd(a, amount) ==
    CASE a.t = "number" /\ amount.t = "number" -> Num(a.v + amount.v)
      [] a.t = "number" /\ amount.t = "null" -> a
      [] a.t = "inherited" -> Text(<<amount>>)
      [] a.t = "string" -> Text(Append(a.v, amount))
      [] OTHER -> NaN

\* obj[k] = v on a plain object: "__proto__" is Object.prototype's setter
\* and creates no own property.
JsSet(obj, k, val) ==
    IF k = "__proto__" THEN obj
    ELSE [x \in DOMAIN obj \cup {k} |-> IF x = k THEN val ELSE obj[x]]

EmptyObject == [x \in {} |-> Undefined]

\* isNaN(x) for the values an amount takes: Number(null) is 0.
IsNaN(x) == x.t \in {"NaN", "undefined"}

\* JSON.parse(JSON.stringify(x)) of a number: NaN and Infinity are written
\* as null.
JsonNumber(x) == IF x.t \in {"NaN", "Infinity"} THEN Null ELSE x

----------------------------------------------------------------------------
(* Text to number.  A text is a sequence of one-character strings.         *)

Digits == {"0", "1", "2", "3", "4", "5", "6", "7", "8", "9"}

DigitValue(c) ==
    CASE c = "0" -> 0 [] c = "1" -> 1 [] c = "2" -> 2 [] c = "3" -> 3
      [] c = "4" -> 4 [] c = "5" -> 5 [] c = "6" -> 6 [] c = "7" -> 7
      [] c = "8" -> 8 [] c = "9" -> 9

\* The longest prefix of s made of digits.
RECURSIVE DigitPrefix(_)
DigitPrefix(s) ==
    IF s = <<>> \/ Head(s) \notin Digits THEN <<>>
    ELSE <<Head(s)>> \o DigitPrefix(Tail(s))

RECURSIVE DigitsValue(_, _)
DigitsValue(s, acc) ==
    IF s = <<>> THEN acc
    ELSE DigitsValue(Tail(s), acc * 10 + DigitValue(Head(s)))

RECURSIVE SkipSpaces(_)
SkipSpaces(s) ==
    IF s # <<>> /\ Head(s) = " " THEN SkipSpaces(Tail(s)) ELSE s

\* parseInt(s, 10): leading blanks, a sign, then digits up to the first
\* character that is not one; NaN when there is no digit.
ParseInt(s) ==
    LET a == SkipSpaces(s)
        neg == a # <<>> /\ Head(a) = "-"
        b == IF a # <<>> /\ Head(a) \in {"-", "+"} THEN Tail(a) ELSE a
        d == DigitPrefix(b)
    IN  IF d = <<>> THEN NaN
        ELSE Num(IF neg THEN 0 - DigitsValue(d, 0) ELSE DigitsValue(d, 0))

InfinityText == <<"I", "n", "f", "i", "n", "i", "t", "y">>

\* parseFloat of a request's amount: a JSON number is itself, undefined is
\* NaN, a text is its leading signed "Infinity" or integer (a fraction is
\* outside the model's alphabet).
ParseFloat(x) ==
    CASE x.t = "number" -> x
      [] x.t = "Infinity" -> x
      [] x.t = "text" ->
            LET a == SkipSpaces(x.v)
                b == IF a # <<>> /\ Head(a) \in {"-", "+"} THEN Tail(a) ELSE a
            IN  IF Len(b) >= 8 /\ SubSeq(b, 1, 8) = InfinityText
                THEN Infinity
                ELSE ParseInt(x.v)
      [] OTHER -> NaN

----------------------------------------------------------------------------
(* Dates.                                                                  *)

IsLeap(y) == (y % 4 = 0 /\ y % 100 # 0) \/ y % 400 = 0

DaysInMonth(y, m) ==
    CASE m \in {4, 6, 9, 11} -> 30
      [] m = 2 -> IF IsLeap(y) THEN 29 ELSE 28
      [] OTHER -> 31

RECURSIVE DaysBeforeYear(_)
DaysBeforeYear(y) ==
    IF y <= 2023 THEN 0
    ELSE DaysBeforeYear(y - 1) + (IF IsLeap(y - 1) THEN 366 ELSE 365)

RECURSIVE DaysBeforeMonth(_, _)
DaysBeforeMonth(y, m) ==
    IF m <= 1 THEN 0 ELSE DaysBeforeMonth(y, m - 1) + DaysInMonth(y, m - 1)

\* Days from 2023-01-01 to the civil date y-m-d.
DayNumber(y, m, d) == DaysBeforeYear(y) + DaysBeforeMonth(y, m) + (d - 1)

\* The civil date of day number n (n >= 0).
RECURSIVE YearOfDay(_, _)
YearOfDay(n, y) == IF n < DaysBeforeYear(y + 1) THEN y ELSE YearOfDay(n, y + 1)

RECURSIVE MonthOfDay(_, _, _)
MonthOfDay(n, y, m) ==
    IF n < DaysBeforeYear(y) + DaysBeforeMonth(y, m + 1) THEN m
    ELSE MonthOfDay(n, y, m + 1)

CivilOfDay(n) ==
    LET y == YearOfDay(n, 2023)
        m == MonthOfDay(n, y, 1)
    IN  [y |-> y, m |-> m, d |-> n - DayNumber(y, m, 1) + 1]

\* new Date("YYYY-MM-DD"): a date-only text is midnight UTC of that day.
ParseDate(date) == DayNumber(date.y, date.m, date.d) * 24

\* The host's civil date at instant t: what getFullYear(), getMonth() and
\* getDate() read.
LocalDate(t, zone) == CivilOfDay((t + zone) \div 24)

\* n.toString().padStart(2, '0')
PadStart2(n) == IF n < 10 THEN "0" \o ToString(n) ELSE ToString(n)

\* `${date.getFullYear()}-${(date.getMonth() + 1).toString().padStart(2, '0')}`
\* for date = new Date(exp.date).
YearMonth(date, zone) ==
    LET local == LocalDate(ParseDate(date), zone)
    IN  ToString(local.y) \o "-" \o PadStart2(local.m)

\* new Date(now.getFullYear(), now.getMonth() - numMonths, 1): midnight, host
\* time, of the first day of the month numMonths before the host's current
\* month; a month index below 0 rolls the year back.
CutoffDate(now, zone, numMonths) ==
    LET local == LocalDate(now, zone)
        index == local.y * 12 + (local.m - 1) - numMonths
    IN  DayNumber(index \div 12, (index % 12) + 1, 1) * 24 - zone

----------------------------------------------------------------------------
(* Reading and writing the files.                                          *)

\* JSON.parse(JSON.stringify(expenses)): what writeExpenses followed by
\* readExpenses yields.  Only a number that is not finite changes.
JsonExpenses(expenses) ==
    [i \in 1..Len(expenses) |->
        [expenses[i] EXCEPT !.amount = JsonNumber(expenses[i].amount)]]

----------------------------------------------------------------------------
(* GET /reports/monthly                                                    *)

\* One pass of the forEach body: add exp to its month's bucket.
MonthlyAdd(monthlyReport, exp, zone) ==
    LET yearMonth == YearMonth(exp.date, zone)
        bucket == IF yearMonth \in DOMAIN monthlyReport
                  THEN monthlyReport[yearMonth]
                  ELSE [total |-> Num(0), categories |-> EmptyObject]
        cats0 == IF ~Truthy(JsGet(bucket.categories, exp.category))
                 THEN JsSet(bucket.categories, exp.category, Num(0))
                 ELSE bucket.categories
        cats1 == JsSet(cats0, exp.category,
                       JsAdd(JsGet(cats0, exp.category), exp.amount))
    IN  JsSet(monthlyReport, yearMonth,
              [total |-> JsAdd(bucket.total, exp.amount), categories |-> cats1])

RECURSIVE MonthlyFold(_, _, _, _)
MonthlyFold(expenses, i, monthlyReport, zone) ==
    IF i > Len(expenses) THEN monthlyReport
    ELSE MonthlyFold(expenses, i + 1,
                     MonthlyAdd(monthlyReport, expenses[i], zone), zone)

\* The report sent.  The code re-inserts the buckets in ascending key order;
\* a mapping from keys to buckets has no order, so that step changes nothing
\* here.
MonthlyReport(expenses, zone) == MonthlyFold(expenses, 1, EmptyObject, zone)

----------------------------------------------------------------------------
(* GET /reports/compare                                                    *)

EmptyMonthData == [total |-> Num(0), categories |-> EmptyObject, details |-> <<>>]

CompareAdd(comparisonData, exp, month1, month2, zone) ==
    LET yearMonth == YearMonth(exp.date, zone)
    IN  IF (yearMonth = month1 \/ yearMonth = month2)
           /\ yearMonth \in DOMAIN comparisonData
        THEN LET data == comparisonData[yearMonth]
                 cats0 == IF ~Truthy(JsGet(data.categories, exp.category))
                          THEN JsSet(data.categories, exp.category, Num(0))
                          ELSE data.categories
                 cats1 == JsSet(cats0, exp.category,
                                JsAdd(JsGet(cats0, exp.category), exp.amount))
             IN  [comparisonData EXCEPT ![yearMonth] =
                    [total |-> JsAdd(data.total, exp.amount),
                     categories |-> cats1,
                     details |-> Append(data.details, exp)]]
        ELSE comparisonData

RECURSIVE CompareFold(_, _, _, _, _, _)
CompareFold(expenses, i, comparisonData, month1, month2, zone) ==
    IF i > Len(expenses) THEN comparisonData
    ELSE CompareFold(expenses, i + 1,
                     CompareAdd(comparisonData, expenses[i], month1, month2, zone),
                     month1, month2, zone)

\* A comparison that creates a month's entry only when an expense falls in
\* it.
CompareReportLazy(expenses, month1, month2, zone) ==
    LET full == CompareFold(expenses, 1,
                            JsSet(JsSet(EmptyObject, month1, EmptyMonthData),
                                  month2, EmptyMonthData),
                            month1, month2, zone)
        seen == {m \in DOMAIN full : full[m].details # <<>>}
    IN  [m \in seen |-> full[m]]

\* comparisonData as sent; month1 and month2 are non-empty.
CompareReport(expenses, month1, month2, zone) ==
    CompareFold(expenses, 1,
                JsSet(JsSet(EmptyObject, month1, EmptyMonthData),
                      month2, EmptyMonthData),
                month1, month2, zone)

----------------------------------------------------------------------------
(* GET /reports/recurring and GET /tags                                    *)

\* `${exp.amount}`
AmountText(amount) ==
    IF amount.t = "number" THEN ToString(amount.v) ELSE "null"

\* `${exp.description}|${exp.category}|${exp.amount}`
TemplateKey(exp) ==
    exp.description \o "|" \o exp.category \o "|" \o AmountText(exp.amount)

Template(exp) ==
    [description |-> exp.description, category |-> exp.category,
     amount |-> exp.amount]

\* The filter of /reports/recurring.
RecurringRecentExpenses(expenses, now, zone, numMonths) ==
    SelectSeq(expenses, LAMBDA exp :
        /\ ParseDate(exp.date) >= CutoffDate(now, zone, numMonths)
        /\ ParseDate(exp.date) <= now)

\* The index in occurrences of the entry under key, 0 when there is none.
IndexOfKey(occurrences, key) ==
    IF \E i \in 1..Len(occurrences) : occurrences[i].key = key
    THEN CHOOSE i \in 1..Len(occurrences) : occurrences[i].key = key
    ELSE 0

\* expenseOccurrences, its entries in insertion order (the order of
\* Object.values: no key is an array index, each holds a "|").
RECURSIVE ExpenseOccurrences(_, _, _, _)
ExpenseOccurrences(recentExpenses, i, occurrences, zone) ==
    IF i > Len(recentExpenses) THEN occurrences
    ELSE LET exp == recentExpenses[i]
             key == TemplateKey(exp)
             yearMonth == YearMonth(exp.date, zone)
             at == IndexOfKey(occurrences, key)
             next == IF at = 0
                     THEN Append(occurrences,
                                 [key |-> key, expense |-> Template(exp),
                                  months |-> {yearMonth}])
                     ELSE [occurrences EXCEPT ![at].months = @ \cup {yearMonth}]
         IN  ExpenseOccurrences(recentExpenses, i + 1, next, zone)

MinMonths(item) == Cardinality(item.months) >= 2

\* recurringExpenses mapped to the output format.
RecurringExpenses(expenses, now, zone, numMonths) ==
    LET recent == RecurringRecentExpenses(expenses, now, zone, numMonths)
        occurrences == ExpenseOccurrences(recent, 1, <<>>, zone)
        recurring == SelectSeq(occurrences, MinMonths)
    IN  [i \in 1..Len(recurring) |-> recurring[i].expense]

\* The filter of /tags.
TagsRecentExpenses(expenses, now, zone, numMonths) ==
    SelectSeq(expenses, LAMBDA exp :
        /\ ParseDate(exp.date) >= CutoffDate(now, zone, numMonths)
        /\ ParseDate(exp.date) <= now)

\* Tags collected without the uniqueTags.has(key) test.
UniqueTagsNoCheck(recentExpenses, i, tags) ==
    [j \in 1..Len(recentExpenses) |->
        [key |-> TemplateKey(recentExpenses[j]),
         tag |-> Template(recentExpenses[j])]]

\* uniqueTags, its entries in insertion order.
RECURSIVE UniqueTags(_, _, _)
UniqueTags(recentExpenses, i, tags) ==
    IF i > Len(recentExpenses) THEN tags
    ELSE LET exp == recentExpenses[i]
             key == TemplateKey(exp)
         IN  UniqueTags(recentExpenses, i + 1,
                        IF IndexOfKey(tags, key) = 0
                        THEN Append(tags, [key |-> key, tag |-> Template(exp)])
                        ELSE tags)

\* Array.from(uniqueTags.values())
Tags(expenses, now, zone, numMonths) ==
    LET unique == UniqueTags(TagsRecentExpenses(expenses, now, zone, numMonths),
                             1, <<>>)
    IN  [i \in 1..Len(unique) |-> unique[i].tag]

\* parseInt(numMonthsParam || fallback, 10); an absent or empty parameter is
\* the empty text.
NumMonths(numMonthsParam, fallback) ==
    ParseInt(IF numMonthsParam = <<>> THEN fallback ELSE numMonthsParam)

\* isNaN(numMonths) || numMonths <= 0
InvalidMonths(numMonths) == IsNaN(numMonths) \/ numMonths.v <= 0

----------------------------------------------------------------------------
(* Expenses: create, update, delete.  Each yields the response and, when   *)
(* the handler calls writeExpenses, the array it writes.                   *)

\* An absent or empty date of a request body: falsy.
NoDate == [y |-> 0, m |-> 0, d |-> 0]
\* An absent notes field of a request body.
NoNotes == [given |-> FALSE, text |-> ""]
Notes(text) == [given |-> TRUE, text |-> text]

NoWrite(expenses, status, body) ==
    [write |-> FALSE, file |-> expenses, status |-> status, body |-> body]
Write(expenses, status, body) ==
    [write |-> TRUE, file |-> expenses, status |-> status, body |-> body]

\* Date.now().toString()
NewId(now) == ToString(now)

\* app.post('/expenses')
PostExpense(expenses, body, now) ==
    LET newExpense ==
            [id |-> NewId(now),
             date |-> body.date,
             amount |-> ParseFloat(body.amount),
             category |-> body.category,
             description |-> body.description,
             notes |-> IF body.notes.given THEN body.notes.text ELSE ""]
    IN  IF newExpense.date = NoDate \/ IsNaN(newExpense.amount)
           \/ newExpense.category = ""
        THEN NoWrite(expenses, 400, "Date, amount, and category are required.")
        ELSE Write(Append(expenses, newExpense), 201,
                   [newExpense EXCEPT !.amount = JsonNumber(@)])

\* expenses.findIndex(exp => exp.id === id), counted from 1; 0 for -1.
FindIndex(records, id) ==
    IF \E i \in 1..Len(records) : records[i].id = id
    THEN CHOOSE i \in 1..Len(records) :
            /\ records[i].id = id
            /\ \A j \in 1..(i - 1) : records[j].id # id
    ELSE 0

\* An update that saves before it looks at the amount.
PutExpenseSavesFirst(expenses, id, body) ==
    LET index == FindIndex(expenses, id)
        old == expenses[index]
        updatedExpense ==
            [old EXCEPT !.amount = IF body.amount.t # "undefined"
                                   THEN ParseFloat(body.amount) ELSE @,
                        !.notes = IF body.notes.given THEN body.notes.text
                                  ELSE @]
    IN  IF index = 0 THEN NoWrite(expenses, 404, "Expense not found")
        ELSE Write([expenses EXCEPT ![index] = updatedExpense],
                   IF IsNaN(updatedExpense.amount) THEN 400 ELSE 200,
                   [updatedExpense EXCEPT !.amount = JsonNumber(@)])

\* app.put('/expenses/:id')
PutExpense(expenses, id, body) ==
    LET index == FindIndex(expenses, id)
        old == expenses[index]
        updatedExpense ==
            [id |-> old.id,
             date |-> IF body.date # NoDate THEN body.date ELSE old.date,
             amount |-> IF body.amount.t # "undefined"
                        THEN ParseFloat(body.amount) ELSE old.amount,
             category |-> IF body.category # "" THEN body.category
                          ELSE old.category,
             description |-> IF body.description # "" THEN body.description
                             ELSE old.description,
             notes |-> IF body.notes.given THEN body.notes.text ELSE old.notes]
    IN  IF index = 0 THEN NoWrite(expenses, 404, "Expense not found")
        ELSE IF IsNaN(updatedExpense.amount)
        THEN NoWrite(expenses, 400, "Invalid amount provided.")
        ELSE Write([expenses EXCEPT ![index] = updatedExpense], 200,
                   [updatedExpense EXCEPT !.amount = JsonNumber(@)])

\* app.delete('/expenses/:id')
DeleteExpense(expenses, id) ==
    LET kept == SelectSeq(expenses, LAMBDA exp : exp.id # id)
    IN  IF Len(kept) < Len(expenses) THEN Write(kept, 204, "")
        ELSE NoWrite(expenses, 404, "Expense not found")

\* app.get('/expenses/:id')
GetExpense(expenses, id) ==
    LET index == FindIndex(expenses, id)
    IN  IF index # 0 THEN NoWrite(expenses, 200, expenses[index])
        ELSE NoWrite(expenses, 404, "Expense not found")

----------------------------------------------------------------------------
(* Todos: create, update, delete.                                          *)

\* An absent field of a todo request body.
Absent == [given |-> FALSE, val |-> ""]
Given(val) == [given |-> TRUE, val |-> val]

\* app.post('/todos'); `completed` is given as a boolean or absent.
PostTodo(todos, body, now) ==
    LET newTodo ==
            [id |-> NewId(now),
             text |-> IF body.text.given THEN body.text.val ELSE "",
             completed |-> body.completed.given /\ body.completed.val = "true",
             createdAt |-> now]
    IN  IF newTodo.text = ""
        THEN NoWrite(todos, 400, "Todo text is required.")
        ELSE Write(Append(todos, newTodo), 201, newTodo)

\* app.put('/todos/:id')
PutTodo(todos, id, body) ==
    LET index == FindIndex(todos, id)
        old == todos[index]
        updatedTodo ==
            [old EXCEPT
                !.text = IF body.text.given THEN body.text.val ELSE @,
                !.completed = IF body.completed.given
                              THEN body.completed.val = "true" ELSE @]
    IN  IF index = 0 THEN NoWrite(todos, 404, "Todo not found")
        ELSE Write([todos EXCEPT ![index] = updatedTodo], 200, updatedTodo)

\* app.delete('/todos/:id')
DeleteTodo(todos, id) ==
    LET kept == SelectSeq(todos, LAMBDA todo : todo.id # id)
    IN  IF Len(kept) < Len(todos) THEN Write(kept, 204, "")
        ELSE NoWrite(todos, 404, "Todo not found")

----------------------------------------------------------------------------
(* The server.                                                             *)

\* readExpenses() and readTodos(): the parsed file.  The files are written
\* at startup and by the write helpers only, so they always parse.
ReadExpenses == expensesFile
ReadTodos == todosFile

\* writeExpenses(expenses) and writeTodos(todos): the file as read back.
WriteExpenses(expenses) == JsonExpenses(expenses)
WriteTodos(todos) == todos

Response(op, query, status, body) ==
    [op |-> op, query |-> query, status |-> status, body |-> body]

\* No response is on its way out: status 0.
NoResponse == Response("", "", 0, "")

Clients == 1..MaxClients
Idle == [pc |-> "idle", op |-> "", id |-> "", amount |-> Undefined,
         overlapped |-> FALSE]

\* The host's offsets from UTC, in hours.
TZOffsets == {0 - 5, 0, 5}

\* 2024-03-15T12:00Z
StartClock == DayNumber(2024, 3, 15) * 24 + 12

Quiet ==
    /\ running = [c \in Clients |-> Idle]
    /\ snapshot = [c \in Clients |-> <<>>]
    /\ serial = <<>>
    /\ acked = {}

\* After startup: both files hold [].
Init ==
    /\ expensesFile = <<>>
    /\ todosFile = <<>>
    /\ clock = StartClock
    /\ tz \in TZOffsets
    /\ resp = NoResponse
    /\ Quiet

Tick ==
    /\ clock < StartClock + MaxTicks
    /\ clock' = clock + 1
    /\ UNCHANGED <<expensesFile, todosFile, tz, resp, running, snapshot,
                   serial, acked>>

----------------------------------------------------------------------------
(* Request inputs.                                                         *)

Ids == {NewId(StartClock + k) : k \in 0..MaxTicks}

D0210 == [y |-> 2024, m |-> 2, d |-> 10]

ExpenseBodies ==
    [date : {NoDate, D0210},
     amount : {Undefined, Num(10), Chars(<<"a", "b", "c">>), Chars(InfinityText)},
     category : {"", "Food"},
     description : {"Coffee"},
     notes : {NoNotes}]

ExpenseUpdates ==
    [date : {NoDate},
     amount : {Undefined, Num(7), Chars(<<"a", "b", "c">>), Chars(InfinityText)},
     category : {""},
     description : {""},
     notes : {NoNotes, Notes("n")}]

TodoBodies == [text : {Absent, Given("t")}, completed : {Absent}]
TodoUpdates == [text : {Absent, Given("")}, completed : {Absent, Given("true")}]

CompareMonths == {"", "2024-02", "2024-09"}

MonthsParams ==
    {<<>>, <<"2">>, <<"3">>, <<"0">>, <<"-", "1">>, <<"a", "b", "c">>,
     <<"2", "a">>}

----------------------------------------------------------------------------
(* Handlers.  Each runs to completion: one action.  No handler reads      *)
(* resp, so a handler is taken only once the response before it has left  *)
(* (Sent): that leaves out no file content and no response.                *)

Files == <<expensesFile, todosFile>>
Overlap == <<running, snapshot, serial, acked>>

\* res.json(...) and res.send() have written the response out.
Sent ==
    /\ resp.status # 0
    /\ resp' = NoResponse
    /\ UNCHANGED <<expensesFile, todosFile, clock, tz, Overlap>>

ExpenseHandler(op, query, result) ==
    /\ resp.status = 0
    /\ expensesFile' = IF result.write THEN WriteExpenses(result.file)
                       ELSE expensesFile
    /\ resp' = Response(op, query, result.status, result.body)
    /\ UNCHANGED <<todosFile, clock, tz, Overlap>>

TodoHandler(op, query, result) ==
    /\ resp.status = 0
    /\ todosFile' = IF result.write THEN WriteTodos(result.file) ELSE todosFile
    /\ resp' = Response(op, query, result.status, result.body)
    /\ UNCHANGED <<expensesFile, clock, tz, Overlap>>

GetExpenses ==
    ExpenseHandler("GET /expenses", "", NoWrite(ReadExpenses, 200, ReadExpenses))

PostExpenses ==
    \E body \in ExpenseBodies :
        /\ Len(expensesFile) < MaxRecords
        /\ ExpenseHandler("POST /expenses", body,
                          PostExpense(ReadExpenses, body, clock))

GetExpenseById ==
    \E id \in Ids :
        ExpenseHandler("GET /expenses/:id", id, GetExpense(ReadExpenses, id))

PutExpenseById ==
    \E id \in Ids, body \in ExpenseUpdates :
        ExpenseHandler("PUT /expenses/:id", <<id, body>>,
                       PutExpense(ReadExpenses, id, body))

DeleteExpenseById ==
    \E id \in Ids :
        ExpenseHandler("DELETE /expenses/:id", id, DeleteExpense(ReadExpenses, id))

GetMonthly ==
    ExpenseHandler("GET /reports/monthly", "",
                   NoWrite(ReadExpenses, 200, MonthlyReport(ReadExpenses, tz)))

GetCompare ==
    \E month1 \in CompareMonths, month2 \in CompareMonths :
        ExpenseHandler("GET /reports/compare", <<month1, month2>>,
            IF month1 = "" \/ month2 = ""
            THEN NoWrite(ReadExpenses, 400,
                         "Please provide two months for comparison")
            ELSE NoWrite(ReadExpenses, 200,
                         CompareReport(ReadExpenses, month1, month2, tz)))

GetRecurring ==
    \E numMonthsParam \in MonthsParams :
        LET numMonths == NumMonths(numMonthsParam, <<"3">>)
        IN  ExpenseHandler("GET /reports/recurring", numMonthsParam,
                IF InvalidMonths(numMonths)
                THEN NoWrite(ReadExpenses, 400,
                             "Invalid number of months specified.")
                ELSE NoWrite(ReadExpenses, 200,
                             RecurringExpenses(ReadExpenses, clock, tz,
                                               numMonths.v)))

GetTags ==
    \E numMonthsParam \in MonthsParams :
        LET numMonths == NumMonths(numMonthsParam, <<"2">>)
        IN  ExpenseHandler("GET /tags", numMonthsParam,
                IF InvalidMonths(numMonths)
                THEN NoWrite(ReadExpenses, 400,
                             "Invalid number of months specified.")
                ELSE NoWrite(ReadExpenses, 200,
                             Tags(ReadExpenses, clock, tz, numMonths.v)))

GetTodos == TodoHandler("GET /todos", "", NoWrite(ReadTodos, 200, ReadTodos))

PostTodos ==
    \E body \in TodoBodies :
        /\ Len(todosFile) < MaxRecords
        /\ TodoHandler("POST /todos", body, PostTodo(ReadTodos, body, clock))

PutTodoById ==
    \E id \in Ids, body \in TodoUpdates :
        TodoHandler("PUT /todos/:id", <<id, body>>, PutTodo(ReadTodos, id, body))

DeleteTodoById ==
    \E id \in Ids :
        TodoHandler("DELETE /todos/:id", id, DeleteTodo(ReadTodos, id))

Next ==
    \/ Tick \/ Sent
    \/ GetExpenses \/ PostExpenses \/ GetExpenseById \/ PutExpenseById
    \/ DeleteExpenseById
    \/ GetMonthly \/ GetCompare \/ GetRecurring \/ GetTags
    \/ GetTodos \/ PostTodos \/ PutTodoById \/ DeleteTodoById

Spec == Init /\ [][Next]_vars

----------------------------------------------------------------------------
(* The reports over stored expenses drawn from bounded sets.               *)

ReportDates ==
    {[y |-> 2023, m |-> 11, d |-> 30], [y |-> 2023, m |-> 12, d |-> 1],
     [y |-> 2024, m |-> 1, d |-> 1],
     D0210, [y |-> 2024, m |-> 3, d |-> 16]}

\* description, category, amount
ReportTemplates ==
    {<<"Gym|Pool", "Sport", Num(10)>>, <<"Gym", "Pool|Sport", Num(10)>>,
     <<"Permit", "constructor", Num(5)>>}

\* What POST /expenses stores for a body with this date and template, as the
\* i-th record.
StoredExpense(i, date, template) ==
    [id |-> "e" \o ToString(i), date |-> date, amount |-> template[3],
     category |-> template[2], description |-> template[1], notes |-> ""]

StoredExpenses ==
    UNION {
        {[i \in 1..n |-> StoredExpense(i, pick[i][1], pick[i][2])] :
            pick \in [1..n -> ReportDates \X ReportTemplates]} :
        n \in 0..MaxExpenses}

\* 2024-03-15T12:00Z and 2024-03-16T02:00Z
ReportInstants == {StartClock, DayNumber(2024, 3, 16) * 24 + 2}

InitReports ==
    /\ expensesFile \in StoredExpenses
    /\ todosFile = <<>>
    /\ clock \in ReportInstants
    /\ tz \in TZOffsets
    /\ resp = NoResponse
    /\ Quiet

NextReports == Sent \/ GetMonthly \/ GetCompare \/ GetRecurring \/ GetTags

SpecReports == InitReports /\ [][NextReports]_vars

----------------------------------------------------------------------------
(* Write requests on the expenses that overlap: each client's request      *)
(* arrives (its body is read off the socket by bodyParser.json()), then    *)
(* its handler loads the file, and then saves and responds.                *)

\* Handlers that await their file reads and writes: another handler may
\* start in between.
ThreadFreeAsync == TRUE

\* The handlers call fs.readFileSync and fs.writeFileSync and await
\* nothing: a handler has the only JS thread from its load to its response.
ThreadFree == \A c \in Clients : running[c].pc # "handling"

OverlapBody(amount) ==
    [date |-> D0210, amount |-> amount, category |-> "Food",
     description |-> "Coffee", notes |-> NoNotes]

\* What the handler of request r does to the array it loaded.
ApplyRequest(r, expenses, now) ==
    CASE r.op = "POST /expenses" ->
            PostExpense(expenses, OverlapBody(r.amount), now)
      [] r.op = "PUT /expenses/:id" ->
            PutExpense(expenses, r.id, [OverlapBody(r.amount) EXCEPT
                                            !.date = NoDate, !.category = "",
                                            !.description = ""])
      [] r.op = "DELETE /expenses/:id" -> DeleteExpense(expenses, r.id)

OverlapRequests ==
    {[pc |-> "received", op |-> "POST /expenses", id |-> "",
      amount |-> Num(10), overlapped |-> FALSE]}
    \cup {[pc |-> "received", op |-> "PUT /expenses/:id", id |-> id,
           amount |-> Num(7), overlapped |-> FALSE] : id \in Ids}
    \cup {[pc |-> "received", op |-> "DELETE /expenses/:id", id |-> id,
           amount |-> Undefined, overlapped |-> FALSE] : id \in Ids}

Arrive(c) ==
    /\ running[c].pc = "idle"
    /\ \E r \in OverlapRequests :
        LET busy == \E d \in Clients : running[d].pc # "idle"
        IN  running' = [d \in Clients |->
                IF d = c THEN [r EXCEPT !.overlapped = busy]
                ELSE IF running[d].pc # "idle"
                THEN [running[d] EXCEPT !.overlapped = TRUE]
                ELSE running[d]]
    /\ UNCHANGED <<expensesFile, todosFile, clock, tz, resp, snapshot, serial,
                   acked>>

\* const expenses = readExpenses();
Load(c) ==
    /\ running[c].pc = "received"
    /\ ThreadFree
    /\ running[c].op = "POST /expenses" => Len(expensesFile) < MaxRecords
    /\ running' = [running EXCEPT ![c].pc = "handling"]
    /\ snapshot' = [snapshot EXCEPT ![c] = ReadExpenses]
    /\ UNCHANGED <<expensesFile, todosFile, clock, tz, resp, serial, acked>>

\* The rest of the handler: writeExpenses(expenses) and the response.
SaveAndRespond(c) ==
    /\ running[c].pc = "handling"
    /\ resp.status = 0
    /\ LET result == ApplyRequest(running[c], snapshot[c], clock)
           inTurn == ApplyRequest(running[c], serial, clock)
       IN  /\ expensesFile' = IF result.write THEN WriteExpenses(result.file)
                              ELSE expensesFile
           /\ resp' = Response(running[c].op, running[c].id, result.status,
                               result.body)
           /\ serial' = IF inTurn.write THEN WriteExpenses(inTurn.file)
                        ELSE serial
           /\ acked' = IF result.write /\ running[c].overlapped
                       THEN acked \cup {c} ELSE acked \ {c}
    /\ running' = [running EXCEPT ![c] = Idle]
    /\ snapshot' = [snapshot EXCEPT ![c] = <<>>]
    /\ UNCHANGED <<todosFile, clock, tz>>

NextOverlap ==
    \/ Tick \/ Sent
    \/ \E c \in Clients : Arrive(c)
    \/ \E c \in Clients : Load(c)
    \/ \E c \in Clients : SaveAndRespond(c)

SpecOverlap == Init /\ [][NextOverlap]_vars

----------------------------------------------------------------------------
(* What the claims speak of.                                               *)

Ok(op) == resp.op = op /\ resp.status = 200

\* The window a 200 response of /reports/recurring or /tags was computed for.
WindowOf(fallback) == NumMonths(resp.query, fallback).v

Occurs(seq, x) == \E i \in 1..Len(seq) : seq[i] = x
NoRepeats(seq) == \A i, j \in 1..Len(seq) : seq[i] = seq[j] => i = j

\* An amount as a number; a stored null adds nothing to a sum.
AmountValue(amount) == IF amount.t = "number" THEN amount.v ELSE 0

RECURSIVE SumOfAmounts(_)
SumOfAmounts(expenses) ==
    IF expenses = <<>> THEN 0
    ELSE AmountValue(Head(expenses).amount) + SumOfAmounts(Tail(expenses))

\* The sum of the values of `categories` under `keys`.
RECURSIVE SumOfValues(_, _)
SumOfValues(categories, keys) ==
    IF keys = {} THEN 0
    ELSE LET k == CHOOSE x \in keys : TRUE
         IN  AmountValue(categories[k]) + SumOfValues(categories, keys \ {k})

\* The sum of the totals of the buckets of `report` under `keys`.
RECURSIVE SumOfTotals(_, _)
SumOfTotals(report, keys) ==
    IF keys = {} THEN 0
    ELSE LET k == CHOOSE x \in keys : TRUE
         IN  AmountValue(report[k].total) + SumOfTotals(report, keys \ {k})

\* The bucket's total is a number and is the sum of its categories' values,
\* all numbers.
BucketAddsUp(bucket) ==
    /\ bucket.total.t = "number"
    /\ \A c \in DOMAIN bucket.categories : bucket.categories[c].t = "number"
    /\ bucket.total.v = SumOfValues(bucket.categories, DOMAIN bucket.categories)

\* The months, as the handler derives them, of the expenses of `recent`
\* with this template.
MonthsOf(recent, template) ==
    {YearMonth(recent[i].date, tz) :
        i \in {j \in 1..Len(recent) : Template(recent[j]) = template}}

\* C1: /reports/recurring returns a template exactly when the in-window
\* expenses with that description, category and amount occur in two or more
\* distinct months, and returns it once.
C1_RecurringIffTwoMonths ==
    Ok("GET /reports/recurring") =>
        LET recent == RecurringRecentExpenses(expensesFile, clock, tz,
                                              WindowOf(<<"3">>))
            templates == {Template(recent[i]) : i \in 1..Len(recent)}
        IN  /\ \A i \in 1..Len(resp.body) : resp.body[i] \in templates
            /\ \A t \in templates :
                  Occurs(resp.body, t) <=> Cardinality(MonthsOf(recent, t)) >= 2
            /\ NoRepeats(resp.body)

\* C2: the monthly report's totals add up to the sum of the stored amounts,
\* and each bucket's total is the sum of its categories' values.
C2_MonthlyTotalsAddUp ==
    Ok("GET /reports/monthly") =>
        /\ SumOfTotals(resp.body, DOMAIN resp.body) = SumOfAmounts(expensesFile)
        /\ \A m \in DOMAIN resp.body : BucketAddsUp(resp.body[m])

C4_TagsCoverRecurring ==
    Ok("GET /tags") =>
        LET recurring == RecurringExpenses(expensesFile, clock, tz,
                                           WindowOf(<<"2">>))
        IN  /\ \A i \in 1..Len(recurring) : Occurs(resp.body, recurring[i])
            /\ NoRepeats(resp.body)

\* /tags answers while /reports/recurring has a template to return.
C4_Witness ==
    /\ Ok("GET /tags")
    /\ RecurringExpenses(expensesFile, clock, tz, WindowOf(<<"2">>)) # <<>>
    /\ resp.body # <<>>

\* A text that is wholly a positive integer.
PositiveIntegerText(s) ==
    /\ s # <<>>
    /\ \A i \in 1..Len(s) : s[i] \in Digits
    /\ DigitsValue(s, 0) > 0

\* C5: on /reports/recurring and /tags a supplied `months` that is not a
\* positive integer is answered 400, and an absent one gets the report for
\* the default window (3 and 2).
C5_MonthsMustBePositiveInteger ==
    /\ resp.op \in {"GET /reports/recurring", "GET /tags"}
          => /\ (resp.query # <<>> /\ ~PositiveIntegerText(resp.query))
                    => resp.status = 400
             /\ resp.query = <<>> => resp.status = 200
    /\ (resp.op = "GET /reports/recurring" /\ resp.query = <<>>)
          => resp.body = RecurringExpenses(expensesFile, clock, tz, 3)
    /\ (resp.op = "GET /tags" /\ resp.query = <<>>)
          => resp.body = Tags(expensesFile, clock, tz, 2)

UniqueIds(records) ==
    \A i, j \in 1..Len(records) : records[i].id = records[j].id => i = j

\* C6: no two records of a file share an id.
C6_IdsAreUnique == UniqueIds(expensesFile) /\ UniqueIds(todosFile)

C8_WindowIsByCalendarDate ==
    (Ok("GET /reports/recurring") \/ Ok("GET /tags")) =>
        LET window == IF resp.op = "GET /tags" THEN WindowOf(<<"2">>)
                      ELSE WindowOf(<<"3">>)
            recent == IF resp.op = "GET /tags"
                      THEN TagsRecentExpenses(expensesFile, clock, tz, window)
                      ELSE RecurringRecentExpenses(expensesFile, clock, tz,
                                                   window)
            today == LocalDate(clock, tz)
            index == today.y * 12 + (today.m - 1) - window
            first == DayNumber(index \div 12, (index % 12) + 1, 1)
            last == DayNumber(today.y, today.m, today.d)
        IN  \A i \in 1..Len(expensesFile) :
                LET exp == expensesFile[i]
                    day == DayNumber(exp.date.y, exp.date.m, exp.date.d)
                IN  /\ (first <= day /\ day < last) => Occurs(recent, exp)
                    /\ (day < first \/ day > last) => ~Occurs(recent, exp)

\* C9: every stored expense has a date, a category and a finite number as
\* its amount.
C9_StoredExpensesAreValid ==
    \A i \in 1..Len(expensesFile) :
        /\ expensesFile[i].date # NoDate
        /\ expensesFile[i].category # ""
        /\ expensesFile[i].amount.t = "number"

ReadOnly ==
    {"GET /expenses", "GET /expenses/:id", "GET /reports/monthly",
     "GET /reports/compare", "GET /reports/recurring", "GET /tags",
     "GET /todos"}

\* C10: a request answered with a failure, and every read-only request,
\* leaves both files as they were.
C10_FailuresAndReadsChangeNothing ==
    [][(resp.status = 0 /\ resp'.status # 0
        /\ (resp'.status >= 400 \/ resp'.op \in ReadOnly))
       => UNCHANGED Files]_vars

\* An update was refused for its amount while the file held a record.
C10_Witness ==
    /\ resp.op = "PUT /expenses/:id"
    /\ resp.status = 400
    /\ expensesFile # <<>>

============================================================================
